---- MODULE Spec2Model ----
(***************************************************************************)
(* A model of the TAGE trace analyzer: the aggregation routine             *)
(* analyze_mispredictions (src/analyzer.py), the table and CSV writers     *)
(* that present its result, the command-line entry point (src/main.py)     *)
(* and the web interface (src/web_app.py): its analysis, export and        *)
(* liveness requests, served one after the other and at once.              *)
(*                                                                         *)
(* The data source is an SQLite file holding up to eight tables            *)
(* CondTrace_0 .. CondTrace_7 of trace events.  An event is a row          *)
(* (STAMP, CFIPC, STARTPC_ADDR, MISPREDICT); the STAMP of an event is its  *)
(* position in the trace.                                                  *)
(***************************************************************************)
EXTENDS Integers, Sequences, FiniteSets, TLC

(* ------------------------------ bounds -------------------------------- *)

\* The number of events a modelled trace holds at most.  The other domains
\* follow from it: a trace of n events has at most n addresses, no address
\* has more than n events, and no list has more than n records.
MaxRows == 2

(* ------------------------- program constants -------------------------- *)

\* for table_id in range(8)
NumTables == 8

TableIds == 0..(NumTables - 1)

\* The tables a modelled source holds events in: the first and the last name
\* the scan probes.  Every other table is absent from every modelled source.
DataTables == {0, NumTables - 1}

\* Branch addresses (CFIPC).
PCs == 1..MaxRows

\* Fetch-block start addresses (STARTPC_ADDR).
StartPCs == {1, 2}

\* MISPREDICT is a flag.
Flags == {0, 1}

\* The value of an absent optional argument, and of "no exception".
None == "None"

\* sqlite3.OperationalError: no such table, no such column
OperationalError == "OperationalError"

Min(a, b) == IF a <= b THEN a ELSE b

Max(a, b) == IF a >= b THEN a ELSE b

(* --------------------------- the data source --------------------------- *)

Row == [tbl : DataTables, pc : PCs, startPc : StartPCs, mispredict : Flags]

\* Every trace of at most MaxRows events.
Traces == UNION {[1..n -> Row] : n \in 0..MaxRows}

\* The tables that hold an event of the trace.
UsedTables(rows) == {rows[i].tbl : i \in DOMAIN rows}

\* A source: the tables that exist in the file, the events, and the tables
\* that exist without a column the grouped query names.  A table may exist
\* and hold nothing.
Sources ==
    {[present |-> p, rows |-> r, broken |-> {}] :
        p \in SUBSET DataTables, r \in Traces}

WellFormedSource(s) == UsedTables(s.rows) \subseteq s.present

\* Addresses are numbered as the trace first shows them: the program compares
\* addresses for equality only, so a trace stands for its renamings.
FirstSeenOrder(rows) ==
    \A i \in DOMAIN rows :
        \/ rows[i].pc = 1
        \/ \E j \in 1..(i - 1) : rows[j].pc >= rows[i].pc - 1

\* tick_range: None, or a pair (start, end); the pair is not ordered.
TickRanges == {None} \cup ((1..MaxRows) \X (1..MaxRows))

\* top_n: a positive integer; MaxRows truncates no list.
TopNs == 1..MaxRows

\* min_branches: a non-negative integer; 0 and 1 discard nothing.
MinBranchesValues == 0..MaxRows

(* ------------------------------ analyzer ------------------------------- *)

\* SELECT name FROM sqlite_master WHERE type='table' AND name=?
TableExists(source, table_id) == table_id \in source.present

\* The WHERE clause: "STAMP BETWEEN ? AND ?" when tick_range is given (a
\* tuple is true whatever it holds), nothing otherwise.
Where(stamp, tick_range) ==
    IF tick_range = None
    THEN TRUE
    ELSE tick_range[1] <= stamp /\ stamp <= tick_range[2]

\* The events of one table the WHERE clause admits, by STAMP.
Selected(source, table_id, tick_range) ==
    {i \in DOMAIN source.rows :
        source.rows[i].tbl = table_id /\ Where(i, tick_range)}

RECURSIVE SumMispredict(_, _)
SumMispredict(rows, idx) ==
    IF idx = {}
    THEN 0
    ELSE LET i == CHOOSE k \in idx : TRUE
         IN  rows[i].mispredict + SumMispredict(rows, idx \ {i})

\* GROUP BY CFIPC: the row of one group.  STARTPC_ADDR is a bare column of an
\* aggregate query: SQLite takes it from one row of the group, here
\* rows[from].
GroupRow(source, sel, from) ==
    LET pc    == source.rows[from].pc
        group == {i \in sel : source.rows[i].pc = pc}
    IN  [pc      |-> pc,
         startPc |-> source.rows[from].startPc,
         total   |-> Cardinality(group),
         mispred |-> SumMispredict(source.rows, group)]

\* What cur.fetchall() may return for the grouped query on one table: one row
\* per address, in an order the query does not fix, each with the
\* STARTPC_ADDR of one event of its group.
QueryResults(source, table_id, tick_range) ==
    LET sel == Selected(source, table_id, tick_range)
        pcs == {source.rows[i].pc : i \in sel}
        n   == Cardinality(pcs)
    IN  {[k \in 1..n |-> GroupRow(source, sel, pick[k])] :
            pick \in {f \in [1..n -> sel] :
                        \A a, b \in 1..n :
                            a # b => source.rows[f[a]].pc # source.rows[f[b]].pc}}

\* What the cursor returns for each table that exists; nothing is asked of a
\* table that does not.
Fetches(source, tick_range) ==
    LET any == UNION {QueryResults(source, t, tick_range) : t \in source.present}
    IN  {[t \in TableIds |-> IF TableExists(source, t) THEN g[t] ELSE <<>>] :
            g \in {h \in [source.present -> any] :
                      \A t \in source.present :
                          h[t] \in QueryResults(source, t, tick_range)}}

\* pc_stats is a dict: its entries keep the order of first insertion.
IndexOf(pc_stats, pc) ==
    IF \E i \in DOMAIN pc_stats : pc_stats[i].pc = pc
    THEN CHOOSE i \in DOMAIN pc_stats : pc_stats[i].pc = pc
    ELSE 0

\* Mutant of MergeRow: the counts of a later table replace those merged
\* before ("=" for "+=").
MergeRowOverwrite(pc_stats, row) ==
    LET known == IF IndexOf(pc_stats, row.pc) = 0
                 THEN Append(pc_stats,
                             [pc |-> row.pc, startPc |-> 0, total |-> 0, mispred |-> 0])
                 ELSE pc_stats
        i     == IndexOf(known, row.pc)
    IN  [known EXCEPT ![i] = [pc      |-> row.pc,
                              startPc |-> row.startPc,
                              total   |-> row.total,
                              mispred |-> row.mispred]]

\* Mutant of MergeRow: startPc is set when the address is first seen and
\* kept afterwards.
MergeRowKeepFirstStart(pc_stats, row) ==
    LET i == IndexOf(pc_stats, row.pc)
    IN  IF i = 0
        THEN Append(pc_stats,
                    [pc |-> row.pc, startPc |-> row.startPc,
                     total |-> row.total, mispred |-> row.mispred])
        ELSE [pc_stats EXCEPT ![i] = [pc      |-> row.pc,
                                      startPc |-> @.startPc,
                                      total   |-> @.total + row.total,
                                      mispred |-> @.mispred + row.mispred]]

\* The body of "for pc, startPc, total, mispred in cur.fetchall()".
MergeRow(pc_stats, row) ==
    LET known == IF IndexOf(pc_stats, row.pc) = 0
                 THEN Append(pc_stats,
                             [pc |-> row.pc, startPc |-> 0, total |-> 0, mispred |-> 0])
                 ELSE pc_stats
        i     == IndexOf(known, row.pc)
    IN  [known EXCEPT ![i] = [pc      |-> row.pc,
                              startPc |-> row.startPc,
                              total   |-> @.total + row.total,
                              mispred |-> @.mispred + row.mispred]]

RECURSIVE MergeRows(_, _, _)
MergeRows(pc_stats, fetched, k) ==
    IF k > Len(fetched)
    THEN pc_stats
    ELSE MergeRows(MergeRow(pc_stats, fetched[k]), fetched, k + 1)

\* Mutant of SkipTable: the scan queries every name without probing it.
SkipTableNever(source, table_id) == FALSE

\* "if not cur.fetchone(): ...; continue"
SkipTable(source, table_id) == ~TableExists(source, table_id)

\* cur.execute(sql, params); cur.fetchall().  The query raises when the table
\* it names does not exist, or lacks a column it names.
ExecuteQuery(source, fetch, table_id) ==
    IF TableExists(source, table_id) /\ table_id \notin source.broken
    THEN [error |-> None, rows |-> fetch[table_id]]
    ELSE [error |-> OperationalError, rows |-> <<>>]

\* "for table_id in range(8)": a table that does not exist is skipped; an
\* exception ends the scan.
RECURSIVE ScanTables(_, _, _, _)
ScanTables(source, fetch, pc_stats, table_id) ==
    IF table_id >= NumTables
    THEN [error |-> None, pc_stats |-> pc_stats]
    ELSE IF SkipTable(source, table_id)
         THEN ScanTables(source, fetch, pc_stats, table_id + 1)
         ELSE LET q == ExecuteQuery(source, fetch, table_id)
              IN  IF q.error # None
                  THEN [error |-> q.error, pc_stats |-> pc_stats]
                  ELSE ScanTables(source, fetch,
                                  MergeRows(pc_stats, q.rows, 1), table_id + 1)

RECURSIVE Gcd(_, _)
Gcd(a, b) == IF b = 0 THEN a ELSE Gcd(b, a % b)

\* What stands for the ZeroDivisionError of a division by zero.
DivisionByZero == <<0, 0>>

\* A float quotient n / d of two small naturals, kept exactly, as the
\* fraction in lowest terms <<numerator, denominator>>.
Quotient(n, d) ==
    IF d = 0
    THEN DivisionByZero
    ELSE LET g == Gcd(n, d) IN <<n \div g, d \div g>>

\* Mutant of Rate: the operands of the division are swapped.
RateSwapped(mispred, total) ==
    IF total > 0 THEN Quotient(total, mispred) ELSE <<0, 1>>

\* rate = mispred / total if total > 0 else 0
Rate(mispred, total) == IF total > 0 THEN Quotient(mispred, total) ELSE <<0, 1>>

\* Mutant of PassesFilter: the comparison is off by one.
PassesFilterOffByOne(total, min_branches) == ~(total < min_branches - 1)

\* "if total < min_branches: continue"
PassesFilter(total, min_branches) == ~(total < min_branches)

\* results.append((pc, startPc, total, mispred, rate))
ResultTuple(stats) ==
    [pc      |-> stats.pc,
     startPc |-> stats.startPc,
     total   |-> stats.total,
     mispred |-> stats.mispred,
     rate    |-> Rate(stats.mispred, stats.total)]

\* "for pc, stats in pc_stats.items()"
RECURSIVE FilterResults(_, _, _)
FilterResults(pc_stats, min_branches, k) ==
    IF k > Len(pc_stats)
    THEN <<>>
    ELSE IF PassesFilter(pc_stats[k].total, min_branches)
         THEN <<ResultTuple(pc_stats[k])>>
                  \o FilterResults(pc_stats, min_branches, k + 1)
         ELSE FilterResults(pc_stats, min_branches, k + 1)

\* Mutant of SortsBefore: reverse=True is missing.
SortsBeforeAscending(a, b) == a.mispred < b.mispred

\* Mutant of SortsBefore: the key is x[2], the total count.
SortsBeforeByTotal(a, b) == a.total > b.total

\* The order list.sort(key=lambda x: x[3], reverse=True) puts two items in:
\* a goes before b when its key is larger.
SortsBefore(a, b) == a.mispred > b.mispred

\* Mutant of InsertSorted: e goes before the items of equal key, as in a
\* sort that is ascending and then reversed.
InsertSortedTiesFirst(sorted, e) ==
    LET before == {i \in DOMAIN sorted : ~SortsBefore(sorted[i], e)}
        at     == IF before = {}
                  THEN Len(sorted) + 1
                  ELSE CHOOSE i \in before : \A j \in before : i <= j
    IN  SubSeq(sorted, 1, at - 1) \o <<e>> \o SubSeq(sorted, at, Len(sorted))

\* One step of the stable sort: e goes after the items it does not sort
\* before.
InsertSorted(sorted, e) ==
    LET before == {i \in DOMAIN sorted : SortsBefore(e, sorted[i])}
        at     == IF before = {}
                  THEN Len(sorted) + 1
                  ELSE CHOOSE i \in before : \A j \in before : i <= j
    IN  SubSeq(sorted, 1, at - 1) \o <<e>> \o SubSeq(sorted, at, Len(sorted))

RECURSIVE SortResults(_, _)
SortResults(results, k) ==
    IF k = 0
    THEN <<>>
    ELSE InsertSorted(SortResults(results, k - 1), results[k])

\* Mutant of Slice: one record more than asked for.
SliceOneMore(results, top_n) == SubSeq(results, 1, Min(top_n + 1, Len(results)))

\* results[:top_n], a Python slice.
Slice(results, top_n) ==
    IF top_n >= 0
    THEN SubSeq(results, 1, Min(top_n, Len(results)))
    ELSE SubSeq(results, 1, Max(Len(results) + top_n, 0))

\* Mutant of NewPcStats: the dictionary is one object kept from call to call
\* (a mutable default, a module attribute).
NewPcStatsKept(kept) == kept

\* "pc_stats = {}": the dictionary a call starts from, whatever dictionary
\* the call before it left.
NewPcStats(kept) == <<>>

\* The body of analyze_mispredictions from the dictionary pc_stats on, given
\* what the cursor returned: the exception raised, if any, the list
\* returned, and the dictionary at the end.
AnalyzeFrom(source, fetch, top_n, min_branches, pc_stats) ==
    LET scan == ScanTables(source, fetch, pc_stats, 0)
    IN  IF scan.error # None
        THEN [error |-> scan.error, value |-> <<>>, pc_stats |-> scan.pc_stats]
        ELSE IF scan.pc_stats = <<>>
        THEN [error |-> None, value |-> <<>>, pc_stats |-> scan.pc_stats]
        ELSE LET results == FilterResults(scan.pc_stats, min_branches, 1)
             IN  [error |-> None,
                  value |-> Slice(SortResults(results, Len(results)), top_n),
                  pc_stats |-> scan.pc_stats]

\* analyze_mispredictions, given what the cursor returned: the exception it
\* raised, if any, and the list it returned.
AnalyzeMispredictions(source, fetch, top_n, min_branches) ==
    LET r == AnalyzeFrom(source, fetch, top_n, min_branches, NewPcStats(<<>>))
    IN  [error |-> r.error, value |-> r.value]

(* ---------------------------- presentation ---------------------------- *)

\* def shift_pc_left(pc): return pc << 1
shift_pc_left(addr) == addr * 2

DigitChars ==
    <<"0", "1", "2", "3", "4", "5", "6", "7", "8", "9", "a", "b", "c", "d", "e", "f">>

\* The digits of a natural number in a base up to 16.
RECURSIVE ToBase(_, _)
ToBase(n, base) ==
    IF n < base
    THEN DigitChars[n + 1]
    ELSE ToBase(n \div base, base) \o DigitChars[(n % base) + 1]

\* hex(n) of a natural number
Hex(n) == "0x" \o ToBase(n, 16)

\* str(n) of a natural number, as "{n}" formats it
Str(n) == ToBase(n, 10)

\* round(x) of the fraction <<n, d>>, ties to the even neighbour
RoundHalfEven(n, d) ==
    LET q == n \div d
        r == n % d
    IN  IF 2 * r > d \/ (2 * r = d /\ q % 2 = 1) THEN q + 1 ELSE q

\* f"{rate*100:.2f}"
Format2f(rate) ==
    LET h == RoundHalfEven(10000 * rate[1], rate[2])
    IN  Str(h \div 100) \o "." \o Str((h % 100) \div 10) \o Str(h % 10)

\* f"{s:<w}": s, left-justified in a field of w characters
RECURSIVE PadRight(_, _)
PadRight(str, width) ==
    IF Len(str) >= width THEN str ELSE PadRight(str \o " ", width)

\* ",".join(fields)
RECURSIVE JoinFields(_, _)
JoinFields(fields, k) ==
    IF k = Len(fields)
    THEN fields[k]
    ELSE fields[k] \o "," \o JoinFields(fields, k + 1)

\* The cells of one row of the table print_results prints; the row is the
\* cells with a blank between them.
TableRow(i, r) ==
    <<PadRight(Str(i), 5), PadRight(Hex(r.pc), 20), PadRight(Hex(r.startPc), 18),
      PadRight(Str(r.total), 15), PadRight(Str(r.mispred), 15),
      PadRight(Format2f(r.rate), 8) \o "%">>

RECURSIVE SumField(_, _, _)
SumField(rs, field, k) ==
    IF k > Len(rs) THEN 0 ELSE rs[k][field] + SumField(rs, field, k + 1)

\* The summary print_results prints under the table, when there are branches.
Summary(rs) ==
    LET total_branches == SumField(rs, "total", 1)
        total_mispred  == SumField(rs, "mispred", 1)
    IN  IF total_branches > 0
        THEN <<Str(Len(rs)), Str(total_branches), Str(total_mispred),
               Format2f(Quotient(total_mispred, total_branches)) \o "%">>
        ELSE <<>>

\* print_results(results): the rows and the summary.
PrintResults(rs) ==
    IF rs = <<>>
    THEN [rows |-> <<>>, summary |-> <<>>, message |-> "No data to display"]
    ELSE [rows |-> [i \in 1..Len(rs) |-> TableRow(i, rs[i])],
          summary |-> Summary(rs), message |-> ""]

\* The header row of export_to_csv.
CsvFileHeader == "Rank,PC,Start PC,Total Branches,Mispred Count,Mispred Rate (%)"

\* The header line of handle_export_csv.
CsvResponseHeader == "Rank,PC,Start PC,Count,Mispred Count,Mispred Rate (%)"

\* One record as a line of CSV: both writers format it alike.
CsvLine(i, r) ==
    JoinFields(<<Str(i), Hex(r.pc), Hex(r.startPc), Str(r.total), Str(r.mispred),
                 Format2f(r.rate)>>, 1)

\* export_to_csv(results, output_file): the lines of the file.
ExportToCsv(rs) == <<CsvFileHeader>> \o [i \in 1..Len(rs) |-> CsvLine(i, rs[i])]

\* The body handle_export_csv builds in the StringIO, by line.
CsvResponseBody(rs) ==
    <<CsvResponseHeader>> \o [i \in 1..Len(rs) |-> CsvLine(i, rs[i])]

(* --------------------------- the web requests -------------------------- *)

\* What int() raises on a string that is no integer, and on None.
ValueError == "ValueError"

TypeError == "TypeError"

\* A value of a request as the handler receives it: a missing parameter or
\* a JSON null, a string (its characters), or a JSON number.
Missing == [kind |-> "null", text |-> <<>>, num |-> 0]

StringValue(chars) == [kind |-> "str", text |-> chars, num |-> 0]

NumberValue(n) == [kind |-> "num", text |-> <<>>, num |-> n]

\* The characters of the decimal numeral of a natural number: the value of
\* a number input of the page.
RECURSIVE Numeral(_)
Numeral(n) ==
    IF n < 10
    THEN <<DigitChars[n + 1]>>
    ELSE Numeral(n \div 10) \o <<DigitChars[(n % 10) + 1]>>

\* "if v": None, the empty string and the number 0 are false.
Truthy(v) ==
    \/ v.kind = "str" /\ v.text # <<>>
    \/ v.kind = "num" /\ v.num # 0

IsDigit(c) == \E d \in 0..9 : DigitChars[d + 1] = c

DigitValue(c) == CHOOSE d \in 0..9 : DigitChars[d + 1] = c

RECURSIVE DecimalValue(_, _)
DecimalValue(chars, k) ==
    IF k = 0
    THEN 0
    ELSE 10 * DecimalValue(chars, k - 1) + DigitValue(chars[k])

\* int(v) of a request value, for unsigned numerals without blanks: a number
\* is itself, a string of digits is its value, any other string raises
\* ValueError and None raises TypeError.
ParseInt(v) ==
    IF v.kind = "num"
    THEN [error |-> None, value |-> v.num]
    ELSE IF v.kind = "null"
    THEN [error |-> TypeError, value |-> 0]
    ELSE IF v.text # <<>> /\ \A i \in DOMAIN v.text : IsDigit(v.text[i])
    THEN [error |-> None, value |-> DecimalValue(v.text, Len(v.text))]
    ELSE [error |-> ValueError, value |-> 0]

\* "tick_range = None; if tick_start and tick_end: try: tick_range =
\* (int(tick_start), int(tick_end)) except ValueError: ...": the range the
\* three handlers pass on.  The values are true here, so int() raises no
\* TypeError.
TickRangeOf(tick_start, tick_end) ==
    IF Truthy(tick_start) /\ Truthy(tick_end)
    THEN LET s == ParseInt(tick_start)
             e == ParseInt(tick_end)
         IN  IF s.error = None /\ e.error = None
             THEN <<s.value, e.value>>
             ELSE None
    ELSE None

\* The head of the three handlers: top_n, min_branches and the tick range of
\* the request, or the exception int() raised.
ParseRequest(req) ==
    LET top_n        == ParseInt(req.top_n)
        min_branches == ParseInt(req.min_branches)
    IN  IF top_n.error # None
        THEN [error |-> top_n.error, top_n |-> 0, min_branches |-> 0,
              tick_range |-> None]
        ELSE IF min_branches.error # None
        THEN [error |-> min_branches.error, top_n |-> 0, min_branches |-> 0,
              tick_range |-> None]
        ELSE [error |-> None, top_n |-> top_n.value,
              min_branches |-> min_branches.value,
              tick_range |-> TickRangeOf(req.tick_start, req.tick_end)]

\* s.split(':') of a string, by characters.
RECURSIVE Split(_)
Split(chars) ==
    IF \A i \in DOMAIN chars : chars[i] # ":"
    THEN <<chars>>
    ELSE LET i == CHOOSE k \in DOMAIN chars :
                    chars[k] = ":" /\ \A j \in 1..(k - 1) : chars[j] # ":"
         IN  <<SubSeq(chars, 1, i - 1)>> \o Split(SubSeq(chars, i + 1, Len(chars)))

\* Mutant of parse_tick_range: the ValueError is swallowed and the range is
\* absent.
parse_tick_rangeLenient(tick_range_str) ==
    IF tick_range_str = <<>>
    THEN [error |-> None, value |-> None]
    ELSE LET parts == Split(tick_range_str)
             ints  == [i \in DOMAIN parts |-> ParseInt(StringValue(parts[i]))]
         IN  IF Len(parts) = 2 /\ \A i \in DOMAIN parts : ints[i].error = None
             THEN [error |-> None, value |-> <<ints[1].value, ints[2].value>>]
             ELSE [error |-> None, value |-> None]

\* parse_tick_range(tick_range_str) of main.py: None of no text, the pair of
\* "start:end", and ValueError of any other text: of a text that has not two
\* parts, or a part int() rejects.
parse_tick_range(tick_range_str) ==
    IF tick_range_str = <<>>
    THEN [error |-> None, value |-> None]
    ELSE LET parts == Split(tick_range_str)
             ints  == [i \in DOMAIN parts |-> ParseInt(StringValue(parts[i]))]
         IN  IF Len(parts) = 2 /\ \A i \in DOMAIN parts : ints[i].error = None
             THEN [error |-> None, value |-> <<ints[1].value, ints[2].value>>]
             ELSE [error |-> ValueError, value |-> None]

\* round(n / d * 100, 2), as the fraction of hundredths it is nearest to.
Round2Percent(n, d) == Quotient(RoundHalfEven(10000 * n, d), 100)

\* jsonify({'error': message}); str(e) of an exception stands as its name.
JsonError(message) == [mimetype |-> "application/json", body |-> <<"error", message>>]

\* Mutant of ExceptException: the clause catches ValueError only, and any
\* other exception leaves the handler.
ExceptValueError(error) ==
    IF error = ValueError
    THEN [raised |-> None, response |-> JsonError(error)]
    ELSE [raised |-> error, response |-> [mimetype |-> "", body |-> <<>>]]

\* The clause "except Exception as e: return jsonify({'error': str(e)})" of a
\* handler: nothing is raised to the server, the response names the error.
ExceptException(error) == [raised |-> None, response |-> JsonError(error)]

\* The exceptions of the model.
Faults == {OperationalError, ValueError, TypeError}

\* The response is the one the except clause of a handler builds.
ReportsFault(resp) ==
    /\ resp.mimetype = "application/json"
    /\ resp.body # <<>>
    /\ resp.body[1] = "error"
    /\ resp.body[2] \in Faults

NoDataError == "No data found with current filters. Try reducing Minimum Branches."

ChartError == "Failed to create chart"

\* The dictionary handle_analysis stores in current_stats, by key.
AnalysisStats(results) ==
    LET total_count   == SumField(results, "total", 1)
        total_mispred == SumField(results, "mispred", 1)
    IN  <<<<"total_pcs", Len(results)>>,
          <<"total_count", total_count>>,
          <<"total_mispred", total_mispred>>,
          <<"avg_rate", IF total_count > 0
                        THEN Round2Percent(total_mispred, total_count)
                        ELSE <<0, 1>>>>>>

\* formatted_results of handle_analysis.
FormattedResults(results) ==
    [i \in 1..Len(results) |->
        [rank    |-> i,
         pc      |-> Hex(results[i].pc),
         startPc |-> Hex(results[i].startPc),
         total   |-> results[i].total,
         mispred |-> results[i].mispred,
         rate    |-> Round2Percent(results[i].rate[1], results[i].rate[2])]]

\* What the two charts draw: a bar per record, labelled hex(r[1]).
ChartBars(results) ==
    [i \in 1..Len(results) |->
        [label   |-> Hex(results[i].startPc),
         total   |-> results[i].total,
         mispred |-> results[i].mispred,
         rate    |-> results[i].rate]]

\* create_static_chart and create_export_chart: no chart (None) of an empty
\* list.
CreateChart(results) ==
    IF results = <<>>
    THEN [made |-> FALSE, bars |-> <<>>]
    ELSE [made |-> TRUE, bars |-> ChartBars(results)]

\* conn.close() is the statement after the scan: an exception raised in the
\* scan leaves the connection of the call open.
ConnectionLeftOpen(r) == r.error # None

\* The response of handle_analysis to a request with a list: the formatted
\* list, the statistics read from self.current_stats, and the chart.
AnalysisResponse(results, current_stats_read) ==
    [mimetype |-> "application/json",
     body |-> <<"results", FormattedResults(results),
                "stats", current_stats_read,
                "chart_image", CreateChart(results)>>]

\* handle_analysis on a request, the cache being [results, stats]: the
\* response, what is raised, the list the request computed, the cache
\* afterwards, and whether the call left its connection open.
HandleAnalysis(source, fetch, req, cache) ==
    LET p       == ParseRequest(req)
        r       == AnalyzeMispredictions(source, fetch, 3 * p.top_n, p.min_branches)
        results == Slice(r.value, p.top_n)
        stats   == AnalysisStats(results)
    IN  IF p.error # None
        THEN [outcome |-> ExceptException(p.error), results |-> <<>>,
              cache |-> cache, leak |-> FALSE]
        ELSE IF r.error # None
        THEN [outcome |-> ExceptException(r.error), results |-> <<>>,
              cache |-> cache, leak |-> ConnectionLeftOpen(r)]
        ELSE IF results = <<>>
        THEN [outcome |-> [raised |-> None, response |-> JsonError(NoDataError)],
              results |-> results, cache |-> cache, leak |-> FALSE]
        ELSE [outcome |-> [raised |-> None,
                           response |-> AnalysisResponse(results, stats)],
              results |-> results,
              cache |-> [results |-> results, stats |-> stats],
              leak |-> FALSE]

\* Mutant of HandleExportCsvRequest: the export writes the cached list of
\* the last analysis, not a fresh one.
HandleExportCsvCached(source, fetch, req, cached) ==
    LET p == ParseRequest(req)
        r == AnalyzeMispredictions(source, fetch, p.top_n, p.min_branches)
    IN  IF p.error # None
        THEN [outcome |-> ExceptException(p.error), results |-> <<>>,
              leak |-> FALSE]
        ELSE IF r.error # None
        THEN [outcome |-> ExceptException(r.error), results |-> <<>>,
              leak |-> ConnectionLeftOpen(r)]
        ELSE [outcome |->
                [raised |-> None,
                 response |-> [mimetype |-> "text/csv",
                               body |-> CsvResponseBody(cached)]],
              results |-> cached, leak |-> FALSE]

\* handle_export_csv on a request; cached is self.current_results.
HandleExportCsvRequest(source, fetch, req, cached) ==
    LET p == ParseRequest(req)
        r == AnalyzeMispredictions(source, fetch, p.top_n, p.min_branches)
    IN  IF p.error # None
        THEN [outcome |-> ExceptException(p.error), results |-> <<>>,
              leak |-> FALSE]
        ELSE IF r.error # None
        THEN [outcome |-> ExceptException(r.error), results |-> <<>>,
              leak |-> ConnectionLeftOpen(r)]
        ELSE [outcome |->
                [raised |-> None,
                 response |-> [mimetype |-> "text/csv",
                               body |-> CsvResponseBody(r.value)]],
              results |-> r.value, leak |-> FALSE]

\* handle_export_chart on a request; cached is self.current_results.
HandleExportChart(source, fetch, req, cached) ==
    LET p     == ParseRequest(req)
        r     == AnalyzeMispredictions(source, fetch, p.top_n, p.min_branches)
        chart == CreateChart(r.value)
    IN  IF p.error # None
        THEN [outcome |-> ExceptException(p.error), results |-> <<>>,
              leak |-> FALSE]
        ELSE IF r.error # None
        THEN [outcome |-> ExceptException(r.error), results |-> <<>>,
              leak |-> ConnectionLeftOpen(r)]
        ELSE IF chart.made
        THEN [outcome |->
                [raised |-> None,
                 response |-> [mimetype |-> "image/png", body |-> chart.bars]],
              results |-> r.value, leak |-> FALSE]
        ELSE [outcome |-> [raised |-> None, response |-> JsonError(ChartError)],
              results |-> r.value, leak |-> FALSE]

(* ------------------------------- state --------------------------------- *)

VARIABLES
    db,        \* the source file
    pc,        \* "idle", or the operation that has run
    args,      \* the arguments of the operation
    fetched,   \* what the cursor returned for each table
    results,   \* the list analyze_mispredictions returned
    raised,    \* the exception the operation raised, or None
    stdout,    \* what the command printed
    csv_file,  \* the lines of the file --csv names, once written
    response,  \* the response of the web interface to the request
    request,   \* the request, as the handler received it
    current_results,  \* self.current_results of the web application
    current_stats,    \* self.current_stats of the web application
    conn_open, \* a call has left its connection to the source open
    failed,    \* the request before this one was answered with a fault
    argv,      \* the text of --tick-range on the command line
    pc_stats,  \* the dictionary pc_stats of the latest of a series of calls
    earlier,   \* a call of the series made before the latest
    thr        \* the requests being handled at once, by thread

vars ==
    <<db, pc, args, fetched, results, raised, stdout, csv_file, response,
      request, current_results, current_stats, conn_open, failed, argv,
      pc_stats, earlier, thr>>

\* What only a series of calls and requests handled at once change.
seriesvars == <<pc_stats, earlier, thr>>

NoArgs == [top_n |-> 0, tick_range |-> None, min_branches |-> 0]

NoFetch == [t \in TableIds |-> <<>>]

NoOutput == [rows |-> <<>>, summary |-> <<>>, message |-> ""]

NoResponse == [mimetype |-> "", body |-> <<>>]

\* What main prints of an empty list.
NoDataMessage ==
    "No data found with current filters. Try reducing --min-branches value."

NoRequest ==
    [top_n |-> Missing, min_branches |-> Missing,
     tick_start |-> Missing, tick_end |-> Missing]

\* No earlier call.
NoCall == [args |-> NoArgs, fetched |-> NoFetch, results |-> <<>>, raised |-> None]

\* The threads of the server that handle requests at once.
Threads == {1, 2}

\* A thread that has taken no request.
NoThread ==
    [pc |-> "idle", request |-> NoRequest, results |-> <<>>,
     response |-> NoResponse]

Init ==
    /\ db \in {s \in Sources : WellFormedSource(s) /\ FirstSeenOrder(s.rows)}
    /\ pc = "idle"
    /\ args = NoArgs
    /\ fetched = NoFetch
    /\ results = <<>>
    /\ raised = None
    /\ stdout = NoOutput
    /\ csv_file = <<>>
    /\ response = NoResponse
    /\ request = NoRequest
    /\ current_results = <<>>
    /\ current_stats = <<>>
    /\ conn_open = FALSE
    /\ failed = FALSE
    /\ argv = <<>>
    /\ pc_stats = <<>>
    /\ earlier = NoCall
    /\ thr = [t \in Threads |-> NoThread]

\* A call of analyze_mispredictions(db_path, top_n, tick_range, min_branches).
Analyze ==
    /\ pc = "idle"
    /\ \E top_n \in TopNs, tick_range \in TickRanges,
          min_branches \in MinBranchesValues :
          \E fetch \in Fetches(db, tick_range) :
            LET r == AnalyzeMispredictions(db, fetch, top_n, min_branches)
            IN  /\ args' = [top_n |-> top_n, tick_range |-> tick_range,
                            min_branches |-> min_branches]
                /\ fetched' = fetch
                /\ results' = r.value
                /\ raised' = r.error
                /\ conn_open' = (conn_open \/ ConnectionLeftOpen(r))
    /\ pc' = "analyze"
    /\ UNCHANGED seriesvars
    /\ UNCHANGED <<argv, db, stdout, csv_file, response, request, current_results,
                   current_stats, failed>>

\* main() in command-line mode, on a file that exists, with the tick range
\* parsed: --top, --tick-range, --min-branches and, with csv, --csv.  The
\* chart of --plot and the statistics of --verbose are left out.
Main ==
    /\ pc = "idle"
    /\ \E top_n \in TopNs, tick_range \in TickRanges,
          min_branches \in MinBranchesValues, csv \in BOOLEAN :
          \E fetch \in Fetches(db, tick_range) :
            LET r == AnalyzeMispredictions(db, fetch, top_n, min_branches)
            IN  /\ args' = [top_n |-> top_n, tick_range |-> tick_range,
                            min_branches |-> min_branches]
                /\ fetched' = fetch
                /\ results' = r.value
                /\ raised' = r.error
                /\ stdout' =
                     IF r.error # None
                     THEN NoOutput
                     ELSE IF r.value = <<>>
                     THEN [rows |-> <<>>, summary |-> <<>>,
                           message |-> NoDataMessage]
                     ELSE PrintResults(r.value)
                /\ csv_file' =
                     IF r.error = None /\ r.value # <<>> /\ csv
                     THEN ExportToCsv(r.value)
                     ELSE <<>>
                /\ conn_open' = (conn_open \/ ConnectionLeftOpen(r))
    /\ pc' = "main"
    /\ UNCHANGED seriesvars
    /\ UNCHANGED <<argv, db, response, request, current_results, current_stats, failed>>

\* handle_export_csv, with the query string parsed.
HandleExportCsv ==
    /\ pc = "idle"
    /\ \E top_n \in TopNs, tick_range \in TickRanges,
          min_branches \in MinBranchesValues :
          \E fetch \in Fetches(db, tick_range) :
            LET r == AnalyzeMispredictions(db, fetch, top_n, min_branches)
            IN  /\ args' = [top_n |-> top_n, tick_range |-> tick_range,
                            min_branches |-> min_branches]
                /\ fetched' = fetch
                /\ results' = r.value
                /\ raised' = None
                /\ response' =
                     IF r.error # None
                     THEN [mimetype |-> "application/json",
                           body |-> <<"error", r.error>>]
                     ELSE [mimetype |-> "text/csv",
                           body |-> CsvResponseBody(r.value)]
                /\ conn_open' = (conn_open \/ ConnectionLeftOpen(r))
    /\ pc' = "export_csv"
    /\ UNCHANGED seriesvars
    /\ UNCHANGED <<argv, db, stdout, csv_file, request, current_results, current_stats,
                   failed>>

Next == Analyze

\* The aggregation routine alone.
Spec == Init /\ [][Next]_vars

NextSurfaces == Analyze \/ Main \/ HandleExportCsv

\* The routine and the surfaces that present its result.
SpecSurfaces == Init /\ [][NextSurfaces]_vars

\* The sources the web interface is started on: one table, one start
\* address; the table may be one the grouped query fails on.
WebSources ==
    {[present |-> {0}, rows |-> r, broken |-> b] :
        r \in {t \in UNION {[1..n -> [tbl : {0}, pc : PCs, startPc : {1},
                                      mispredict : Flags]] : n \in 0..MaxRows} :
                 FirstSeenOrder(t)},
        b \in SUBSET {0}}

\* A string int() rejects.
Malformed == StringValue(<<"x">>)

\* The bounds of a tick range a request names.
Ticks == 0..MaxRows

\* tick_start and tick_end of a request: both absent, both the strings of
\* the inputs of the page or of the query string, both JSON numbers, one
\* absent, one or both malformed.
TickPairs ==
    {<<Missing, Missing>>}
    \cup {<<StringValue(Numeral(a)), StringValue(Numeral(b))>> : a, b \in Ticks}
    \cup {<<NumberValue(a), NumberValue(b)>> : a, b \in Ticks}
    \cup {<<StringValue(Numeral(1)), Missing>>,
          <<Malformed, StringValue(Numeral(1))>>,
          <<StringValue(Numeral(1)), Malformed>>}

\* The JSON bodies POSTed to /analyze.
AnalysisRequests ==
    {[top_n |-> StringValue(Numeral(t)), min_branches |-> m,
      tick_start |-> r[1], tick_end |-> r[2]] :
        t \in TopNs,
        m \in {StringValue(Numeral(n)) : n \in MinBranchesValues} \cup {Malformed},
        r \in TickPairs}

\* The query strings of /export/csv and /export/chart: every value is a
\* string, or is absent.
ExportRequests ==
    {q \in AnalysisRequests : q.tick_start.kind # "num" /\ q.tick_end.kind # "num"}

\* The requests that name no tick range.
Unranged(requests) ==
    {q \in requests : q.tick_start = Missing /\ q.tick_end = Missing}

\* The arguments a handler passes to analyze_mispredictions.
ArgsOf(p) ==
    IF p.error # None
    THEN NoArgs
    ELSE [top_n |-> p.top_n, tick_range |-> p.tick_range,
          min_branches |-> p.min_branches]

\* What the cursor may return to the handler of a request.
FetchesOf(source, p) ==
    IF p.error # None THEN {NoFetch} ELSE Fetches(source, p.tick_range)

\* POST /analyze: handle_analysis on one of the requests.
RouteAnalyze(requests) ==
    /\ \E req \in requests :
          \E fetch \in FetchesOf(db, ParseRequest(req)) :
            LET h == HandleAnalysis(db, fetch, req,
                                    [results |-> current_results,
                                     stats |-> current_stats])
            IN  /\ request' = req
                /\ args' = ArgsOf(ParseRequest(req))
                /\ fetched' = fetch
                /\ results' = h.results
                /\ raised' = h.outcome.raised
                /\ response' = h.outcome.response
                /\ current_results' = h.cache.results
                /\ current_stats' = h.cache.stats
                /\ conn_open' = (conn_open \/ h.leak)
    /\ pc' = "analyze_route"
    /\ failed' = ReportsFault(response)
    /\ UNCHANGED seriesvars
    /\ UNCHANGED <<argv, db, stdout, csv_file>>

\* GET /export/csv: handle_export_csv on one of the requests.
RouteExportCsv(requests) ==
    /\ \E req \in requests :
          \E fetch \in FetchesOf(db, ParseRequest(req)) :
            LET h == HandleExportCsvRequest(db, fetch, req, current_results)
            IN  /\ request' = req
                /\ args' = ArgsOf(ParseRequest(req))
                /\ fetched' = fetch
                /\ results' = h.results
                /\ raised' = h.outcome.raised
                /\ response' = h.outcome.response
                /\ conn_open' = (conn_open \/ h.leak)
    /\ pc' = "export_csv_route"
    /\ failed' = ReportsFault(response)
    /\ UNCHANGED seriesvars
    /\ UNCHANGED <<argv, db, stdout, csv_file, current_results, current_stats>>

\* GET /export/chart: handle_export_chart on one of the requests.
RouteExportChart(requests) ==
    /\ \E req \in requests :
          \E fetch \in FetchesOf(db, ParseRequest(req)) :
            LET h == HandleExportChart(db, fetch, req, current_results)
            IN  /\ request' = req
                /\ args' = ArgsOf(ParseRequest(req))
                /\ fetched' = fetch
                /\ results' = h.results
                /\ raised' = h.outcome.raised
                /\ response' = h.outcome.response
                /\ conn_open' = (conn_open \/ h.leak)
    /\ pc' = "export_chart_route"
    /\ failed' = ReportsFault(response)
    /\ UNCHANGED seriesvars
    /\ UNCHANGED <<argv, db, stdout, csv_file, current_results, current_stats>>

\* GET /health
RouteHealth ==
    /\ pc' = "health"
    /\ request' = NoRequest
    /\ args' = NoArgs
    /\ fetched' = NoFetch
    /\ results' = <<>>
    /\ raised' = None
    /\ response' = [mimetype |-> "application/json", body |-> <<"status", "ok">>]
    /\ failed' = ReportsFault(response)
    /\ UNCHANGED seriesvars
    /\ UNCHANGED <<argv, db, stdout, csv_file, current_results, current_stats, conn_open>>

\* The web application of a source, before its first request.
InitWeb ==
    /\ db \in WebSources
    /\ pc = "idle"
    /\ args = NoArgs
    /\ fetched = NoFetch
    /\ results = <<>>
    /\ raised = None
    /\ stdout = NoOutput
    /\ csv_file = <<>>
    /\ response = NoResponse
    /\ request = NoRequest
    /\ current_results = <<>>
    /\ current_stats = <<>>
    /\ conn_open = FALSE
    /\ failed = FALSE
    /\ argv = <<>>
    /\ pc_stats = <<>>
    /\ earlier = NoCall
    /\ thr = [t \in Threads |-> NoThread]

\* The texts of --tick-range: none, "start:end", and texts that are not two
\* integers.
TickRangeTexts ==
    {<<>>}
    \cup {Numeral(a) \o <<":">> \o Numeral(b) : a, b \in 1..MaxRows}
    \cup {<<"x">>, <<"1">>, <<"1", ":", "x">>, <<":", "1">>,
          <<"1", ":", "1", ":", "1">>}

\* main() in command-line mode, on a file that exists, from the text of
\* --tick-range: parse_tick_range raises before the analysis, and nothing
\* catches what it raises.
Command ==
    /\ pc = "idle"
    /\ \E top_n \in TopNs, min_branches \in MinBranchesValues,
          text \in TickRangeTexts :
          LET t == parse_tick_range(text)
          IN  /\ argv' = text
              /\ IF t.error # None
                 THEN /\ args' = NoArgs
                      /\ fetched' = NoFetch
                      /\ results' = <<>>
                      /\ raised' = t.error
                      /\ stdout' = NoOutput
                      /\ conn_open' = conn_open
                 ELSE \E fetch \in Fetches(db, t.value) :
                        LET r == AnalyzeMispredictions(db, fetch, top_n, min_branches)
                        IN  /\ args' = [top_n |-> top_n, tick_range |-> t.value,
                                        min_branches |-> min_branches]
                            /\ fetched' = fetch
                            /\ results' = r.value
                            /\ raised' = r.error
                            /\ stdout' =
                                 IF r.error # None
                                 THEN NoOutput
                                 ELSE IF r.value = <<>>
                                 THEN [rows |-> <<>>, summary |-> <<>>,
                                       message |-> NoDataMessage]
                                 ELSE PrintResults(r.value)
                            /\ conn_open' = (conn_open \/ ConnectionLeftOpen(r))
    /\ pc' = "command"
    /\ UNCHANGED seriesvars
    /\ UNCHANGED <<db, csv_file, response, request, current_results,
                   current_stats, failed>>

\* The first request to the web application.
FirstAnalyze == pc = "idle" /\ RouteAnalyze(AnalysisRequests)

FirstExportCsv == pc = "idle" /\ RouteExportCsv(ExportRequests)

FirstExportChart == pc = "idle" /\ RouteExportChart(ExportRequests)

NextRequest ==
    Analyze \/ Command \/ FirstAnalyze \/ FirstExportCsv \/ FirstExportChart

\* One call of the routine, one command, or one request to the web
\* application, of every form.
SpecRequest == InitWeb /\ [][NextRequest]_vars

\* The requests of a session: the page with its tick inputs left empty and
\* a top_n that truncates nothing; min_branches is 1, or a threshold only an
\* address of every event passes, or no integer.
SessionRequests ==
    {q \in Unranged(ExportRequests) :
        /\ q.top_n = StringValue(Numeral(MaxRows))
        /\ q.min_branches \in {StringValue(Numeral(1)),
                               StringValue(Numeral(MaxRows)), Malformed}}

AnalyzeRequest == RouteAnalyze(SessionRequests)

ExportCsvRequest == RouteExportCsv(SessionRequests)

ExportChartRequest == RouteExportChart(SessionRequests)

NextSession ==
    AnalyzeRequest \/ ExportCsvRequest \/ ExportChartRequest \/ RouteHealth

\* The web application serving requests one after the other.
SpecSession == InitWeb /\ [][NextSession]_vars

\* The arguments of the calls of a series: a top_n that truncates and one
\* that does not, no tick range and the range of the first tick.
CallTopNs == {1, MaxRows}

CallTickRanges == {None} \cup ({1} \X {1})

\* One more call of analyze_mispredictions on the source.  The call before it
\* is remembered, or the one remembered before stays so.
Call ==
    /\ \E top_n \in CallTopNs, tick_range \in CallTickRanges :
          \E fetch \in Fetches(db, tick_range) :
            LET r == AnalyzeFrom(db, fetch, top_n, 0, NewPcStats(pc_stats))
            IN  /\ args' = [top_n |-> top_n, tick_range |-> tick_range,
                            min_branches |-> 0]
                /\ fetched' = fetch
                /\ results' = r.value
                /\ raised' = r.error
                /\ pc_stats' = r.pc_stats
                /\ conn_open' = (conn_open \/ ConnectionLeftOpen(r))
    /\ pc' = "call"
    /\ \/ earlier' = earlier
       \/ /\ pc = "call"
          /\ earlier' = [args |-> args, fetched |-> fetched,
                         results |-> results, raised |-> raised]
    /\ UNCHANGED <<argv, db, stdout, csv_file, response, request,
                   current_results, current_stats, failed, thr>>

\* Calls of the routine, one after the other, on one source.
SpecCalls == InitWeb /\ [][Call]_vars

\* A thread takes an analysis request and runs handle_analysis up to the
\* assignment of current_results and current_stats; a request that ends in
\* a fault or in an empty list is answered at once.
Store(t) ==
    /\ thr[t].pc = "idle"
    /\ \E req \in Unranged(AnalysisRequests) :
          \E fetch \in FetchesOf(db, ParseRequest(req)) :
            LET h == HandleAnalysis(db, fetch, req,
                                    [results |-> current_results,
                                     stats |-> current_stats])
            IN  IF h.outcome.response.body[1] = "error"
                THEN /\ thr' = [thr EXCEPT ![t] =
                                  [pc |-> "done", request |-> req,
                                   results |-> h.results,
                                   response |-> h.outcome.response]]
                     /\ UNCHANGED <<current_results, current_stats>>
                ELSE /\ thr' = [thr EXCEPT ![t] =
                                  [pc |-> "stored", request |-> req,
                                   results |-> h.results,
                                   response |-> NoResponse]]
                     /\ current_results' = h.cache.results
                     /\ current_stats' = h.cache.stats
    /\ UNCHANGED <<argv, db, pc, args, fetched, results, raised, stdout,
                   csv_file, response, request, conn_open, failed, pc_stats,
                   earlier>>

\* The thread formats its list, draws the chart and builds the response, in
\* which 'stats' is self.current_stats as it is by then.
Respond(t) ==
    /\ thr[t].pc = "stored"
    /\ thr' = [thr EXCEPT ![t].pc = "done",
                          ![t].response =
                              AnalysisResponse(thr[t].results, current_stats)]
    /\ UNCHANGED <<argv, db, pc, args, fetched, results, raised, stdout,
                   csv_file, response, request, conn_open, failed, pc_stats,
                   earlier, current_results, current_stats>>

NextConcurrent == \E t \in Threads : Store(t) \/ Respond(t)

\* Analysis requests handled at once by the threads of the server.
SpecConcurrent == InitWeb /\ [][NextConcurrent]_vars

(* ------------------------------ properties ----------------------------- *)

\* analyze_mispredictions has returned a list.
Returned == pc = "analyze" /\ raised = None

\* The partitions that yielded a row for address a.
PartitionsOf(a) ==
    {t \in TableIds : \E k \in DOMAIN fetched[t] : fetched[t][k].pc = a}

\* The row partition t yielded for address a.
PartitionRow(t, a) ==
    fetched[t][CHOOSE k \in DOMAIN fetched[t] : fetched[t][k].pc = a]

\* The sum, over the partitions from t on, of a field of the rows yielded
\* for address a.
RECURSIVE PartitionSum(_, _, _)
PartitionSum(field, a, t) ==
    IF t >= NumTables
    THEN 0
    ELSE (IF t \in PartitionsOf(a) THEN PartitionRow(t, a)[field] ELSE 0)
             + PartitionSum(field, a, t + 1)

\* The addresses the partitions yielded.
SeenPCs == {a \in PCs : PartitionsOf(a) # {}}

\* The addresses whose aggregated total passes the min_branches filter.
QualifyingPCs ==
    {a \in SeenPCs : PartitionSum("total", a, 0) >= args.min_branches}

ReturnedPCs == {results[k].pc : k \in DOMAIN results}

\* The order in which the scan first merged the addresses.
MergeOrder == ScanTables(db, fetched, <<>>, 0).pc_stats

\* C1: every returned record has totalCount >= minBranches; an address whose
\* total over the scanned partitions is below minBranches is not returned.
C1_MinBranchesFilter ==
    Returned =>
        /\ \A k \in DOMAIN results : results[k].total >= args.min_branches
        /\ \A a \in SeenPCs :
               PartitionSum("total", a, 0) < args.min_branches
                   => a \notin ReturnedPCs

\* C1 witness: an address the partitions yielded once is left out under
\* min_branches = 2.
C1_Witness ==
    /\ Returned
    /\ args.min_branches = 2
    /\ \E a \in SeenPCs :
          PartitionSum("total", a, 0) = 1 /\ a \notin ReturnedPCs

\* C2: the returned sequence is ordered by mispredictCount, non-increasing.
C2_SortedByMispredDesc ==
    Returned =>
        \A i, j \in DOMAIN results :
            i < j => results[i].mispred >= results[j].mispred

\* C2 witness: two records with different counts, returned in the order
\* opposite to the one they were merged in.
C2_Witness ==
    /\ Returned
    /\ Len(results) = 2
    /\ results[1].mispred > results[2].mispred
    /\ MergeOrder[1].pc = results[2].pc

\* C3: the number of returned records is min(topN, number of addresses that
\* pass the minBranches filter).
C3_ResultLength ==
    Returned => Len(results) = Min(args.top_n, Cardinality(QualifyingPCs))

\* C3 witness: two addresses pass the filter and top_n = 1 returns one.
C3_Witness ==
    /\ Returned
    /\ args.top_n = 1
    /\ Cardinality(QualifyingPCs) = 2
    /\ Len(results) = 1

\* C4: an address that passes the filter and is not returned has a
\* mispredictCount no larger than that of any returned record.
C4_TopNWorstOffenders ==
    Returned =>
        \A a \in QualifyingPCs \ ReturnedPCs :
            \A k \in DOMAIN results :
                PartitionSum("mispred", a, 0) <= results[k].mispred

\* C4 witness: top_n = 1 with two qualifying addresses; the one first merged
\* has the smaller count and is the one left out.
C4_Witness ==
    /\ Returned
    /\ args.top_n = 1
    /\ Len(results) = 1
    /\ \E a \in QualifyingPCs \ ReturnedPCs :
          /\ PartitionSum("mispred", a, 0) < results[1].mispred
          /\ MergeOrder[1].pc = a

\* C5: totalCount and mispredictCount of a returned record are the sums of
\* the counts the partitions yielded for its address.
C5_SumsOverPartitions ==
    Returned =>
        \A k \in DOMAIN results :
            /\ results[k].total = PartitionSum("total", results[k].pc, 0)
            /\ results[k].mispred = PartitionSum("mispred", results[k].pc, 0)

\* C5 witness: a returned address that two partitions yielded, each with a
\* misprediction.
C5_Witness ==
    /\ Returned
    /\ \E k \in DOMAIN results :
          /\ Cardinality(PartitionsOf(results[k].pc)) = 2
          /\ results[k].total = 2
          /\ results[k].mispred = 2

\* The highest-numbered partition that yielded a row for address a.
LastPartitionOf(a) ==
    CHOOSE t \in PartitionsOf(a) : \A u \in PartitionsOf(a) : u <= t

\* C6: startAddress of a returned record is the one the highest-numbered
\* partition that yielded its address reported.
C6_StartAddressLastWins ==
    Returned =>
        \A k \in DOMAIN results :
            results[k].startPc
                = PartitionRow(LastPartitionOf(results[k].pc), results[k].pc).startPc

\* C6 witness: two partitions report different start addresses for a returned
\* address.
C6_Witness ==
    /\ Returned
    /\ \E k \in DOMAIN results :
          \E t, u \in PartitionsOf(results[k].pc) :
              /\ t < u
              /\ PartitionRow(t, results[k].pc).startPc
                     # PartitionRow(u, results[k].pc).startPc
              /\ results[k].startPc = PartitionRow(u, results[k].pc).startPc

\* C9: rate is mispredictCount / totalCount when totalCount > 0 and 0 when
\* totalCount = 0; no division by zero happens.
C9_Rate ==
    Returned =>
        \A k \in DOMAIN results :
            /\ results[k].rate # DivisionByZero
            /\ results[k].total > 0 =>
                   /\ results[k].rate[2] > 0
                   /\ results[k].rate[1] * results[k].total
                          = results[k].mispred * results[k].rate[2]
            /\ results[k].total = 0 => results[k].rate = <<0, 1>>

\* C9 witness: a returned record with one misprediction in two outcomes.
C9_Witness ==
    /\ Returned
    /\ \E k \in DOMAIN results :
          /\ results[k].total = 2
          /\ results[k].mispred = 1
          /\ results[k].rate = <<1, 2>>

\* The source with every absent table replaced by an empty one.
WithEmptyForAbsent(source) == [source EXCEPT !.present = TableIds]

\* C10: absent partitions are skipped without an error, the result is the
\* one of the source whose absent partitions are present and empty, and it
\* is the empty sequence when no partition yields a row.
C10_AbsentPartitions ==
    pc = "analyze" =>
        /\ raised = None
        /\ results = AnalyzeMispredictions(WithEmptyForAbsent(db), fetched,
                                           args.top_n, args.min_branches).value
        /\ (\A t \in TableIds : fetched[t] = <<>>) => results = <<>>

\* C10 witness: only the last table exists, and its rows are returned.
C10_Witness ==
    /\ pc = "analyze"
    /\ db.present = {NumTables - 1}
    /\ raised = None
    /\ results # <<>>

\* The records shown by the operation that has run.
Shown == pc \in {"main", "export_csv"} /\ raised = None

\* C7: the address displayed for a record is the raw address shifted left by
\* one bit, in the printed table and in both CSV exports.
C7_DisplayAddressShifted ==
    /\ pc = "main" /\ raised = None =>
          /\ \A k \in DOMAIN stdout.rows :
                stdout.rows[k][2] = PadRight(Hex(shift_pc_left(results[k].pc)), 20)
          /\ \A k \in 2..Len(csv_file) :
                csv_file[k] =
                    CsvLine(k - 1,
                            [results[k - 1] EXCEPT !.pc = shift_pc_left(@)])
    /\ pc = "export_csv" /\ response.mimetype = "text/csv" =>
          \A k \in 2..Len(response.body) :
              response.body[k] =
                  CsvLine(k - 1, [results[k - 1] EXCEPT !.pc = shift_pc_left(@)])

\* The lines the CSV export of a ranked sequence is to produce: the fixed
\* header, then one line per record, rank from 1, with the display address.
ClaimedCsv(rs) ==
    <<"Rank,PC,Start PC,Count,Mispred Count,Mispred Rate (%)">>
        \o [i \in 1..Len(rs) |->
               JoinFields(<<Str(i), Hex(2 * rs[i].pc), Hex(rs[i].startPc),
                            Str(rs[i].total), Str(rs[i].mispred),
                            Format2f(rs[i].rate)>>, 1)]

\* C8: the CSV export of n records is the n+1 lines of ClaimedCsv, from the
\* command-line writer and from the web export alike.
C8_CsvExport ==
    /\ pc = "main" /\ csv_file # <<>> => csv_file = ClaimedCsv(results)
    /\ pc = "export_csv" /\ response.mimetype = "text/csv" =>
          response.body = ClaimedCsv(results)

\* An analysis has answered: a call, or a request no fault ended.
Answered ==
    /\ pc \in {"analyze", "analyze_route", "export_csv_route", "export_chart_route"}
    /\ raised = None
    /\ ~ReportsFault(response)

\* The request names no tick range, or two integers.
RangeStated ==
    \/ pc = "analyze"
    \/ request.tick_start = Missing /\ request.tick_end = Missing
    \/ ParseInt(request.tick_start).error = None
       /\ ParseInt(request.tick_end).error = None

\* The tick range the caller gave: None, or the pair of bounds.
StatedRange ==
    IF pc = "analyze"
    THEN args.tick_range
    ELSE IF request.tick_start = Missing
    THEN None
    ELSE <<ParseInt(request.tick_start).value, ParseInt(request.tick_end).value>>

\* The events of address a whose tick lies within the stated bounds, the
\* bounds included; every event of a when no range is stated.
Contributing(a) ==
    {i \in DOMAIN db.rows :
        /\ db.rows[i].pc = a
        /\ IF StatedRange = None
           THEN TRUE
           ELSE StatedRange[1] <= i /\ i <= StatedRange[2]}

\* C11: with a tick range (s, e) given to the routine or as tick_start and
\* tick_end of an analysis or export request, exactly the events with
\* s <= tick <= e contribute to the returned records, and with no range
\* every event contributes.
C11_TickRangeInclusive ==
    (Answered /\ RangeStated) =>
        \A k \in DOMAIN results :
            /\ results[k].total = Cardinality(Contributing(results[k].pc))
            /\ results[k].mispred =
                 SumMispredict(db.rows, Contributing(results[k].pc))

\* C12: when a call of the routine, a command or a web request has ended, by
\* a return or by an exception, no connection it opened to the source is
\* still open.
C12_ConnectionReleased == pc # "idle" => ~conn_open

\* The text of --tick-range is given and is not two integers around a colon.
MalformedText ==
    /\ argv # <<>>
    /\ ~\E a, b \in Ticks : argv = Numeral(a) \o <<":">> \o Numeral(b)

\* tick_start and tick_end of the request are both given, and one is no
\* integer.
MalformedTicks ==
    /\ request.tick_start.kind = "str" /\ request.tick_start.text # <<>>
    /\ request.tick_end.kind = "str" /\ request.tick_end.text # <<>>
    /\ \/ ParseInt(request.tick_start).error # None
       \/ ParseInt(request.tick_end).error # None

\* The records are the counts of every event of their address: no tick range
\* was applied.
Unfiltered ==
    \A k \in DOMAIN results :
        LET all == {i \in DOMAIN db.rows : db.rows[i].pc = results[k].pc}
        IN  /\ results[k].total = Cardinality(all)
            /\ results[k].mispred = SumMispredict(db.rows, all)

\* The aggregation ran on the source: it read the tables, or failed on them.
AggregationRan == args # NoArgs

\* C13, as stated: with a tick range that is not two integers, the command
\* and the request still run the aggregation, without a tick range, and do
\* not end with an error.
C13_MalformedTreatedAsAbsent ==
    /\ (pc = "command" /\ MalformedText) =>
          (raised # ValueError /\ AggregationRan /\ args.tick_range = None)
    /\ (pc \in {"analyze_route", "export_csv_route", "export_chart_route"}
        /\ MalformedTicks /\ ParseInt(request.min_branches).error = None) =>
          (AggregationRan /\ args.tick_range = None)

\* C13, amended: a request with tick bounds that are not two integers runs
\* the aggregation without a tick range; a command with such a --tick-range
\* ends with ValueError before any aggregation, printing no result.
C13_MalformedTickRange ==
    /\ (pc = "command" /\ MalformedText) =>
          /\ raised = ValueError
          /\ ~AggregationRan
          /\ fetched = NoFetch
          /\ results = <<>>
          /\ stdout = NoOutput
    /\ (pc = "command" /\ ~MalformedText /\ argv # <<>>) =>
          (AggregationRan /\ args.tick_range # None)
    /\ (pc \in {"analyze_route", "export_csv_route", "export_chart_route"}
        /\ MalformedTicks /\ ParseInt(request.min_branches).error = None) =>
          /\ AggregationRan
          /\ args.tick_range = None
          /\ raised = None
          /\ db.broken = {} => (~ReportsFault(response) /\ Unfiltered)

\* A command with the malformed range "1:x" has ended.
C13_Witness ==
    /\ pc = "command"
    /\ argv = <<"1", ":", "x">>
    /\ raised = ValueError
    /\ db.rows # <<>>

AfterRequest ==
    pc \in {"analyze_route", "export_csv_route", "export_chart_route"}

\* The request cannot be served: a parameter is no integer, or the query on
\* the table of the source fails.
FaultExpected ==
    \/ ParseInt(request.top_n).error # None
    \/ ParseInt(request.min_branches).error # None
    \/ db.broken # {}

\* The response carries the list the request computed.
CarriesResults ==
    /\ pc = "analyze_route" =>
          IF results = <<>>
          THEN response = JsonError(NoDataError)
          ELSE /\ response.mimetype = "application/json"
               /\ response.body[1] = "results"
               /\ Len(response.body[2]) = Len(results)
               /\ \A k \in DOMAIN results :
                     /\ response.body[2][k].pc = Hex(results[k].pc)
                     /\ response.body[2][k].total = results[k].total
                     /\ response.body[2][k].mispred = results[k].mispred
    /\ pc = "export_csv_route" =>
          /\ response.mimetype = "text/csv"
          /\ Len(response.body) = Len(results) + 1
    /\ pc = "export_chart_route" =>
          IF results = <<>>
          THEN response = JsonError(ChartError)
          ELSE /\ response.mimetype = "image/png"
               /\ Len(response.body) = Len(results)

\* The list is what the request asks of the source: the addresses with at
\* least min_branches events, with the counts of all their events, at most
\* top_n of them.
ListAsRequested ==
    LET min_branches == ParseInt(request.min_branches).value
        top_n        == ParseInt(request.top_n).value
        count(a)     == Cardinality({i \in DOMAIN db.rows : db.rows[i].pc = a})
        qualifying   == {a \in PCs : count(a) >= Max(min_branches, 1)}
    IN  /\ Unfiltered
        /\ {results[k].pc : k \in DOMAIN results} \subseteq qualifying
        /\ Len(results) = Min(top_n, Cardinality(qualifying))

\* C14: a fault in the handling of an analysis, CSV export or chart export
\* request never leaves the handler: the request is answered with the
\* structured error, and whatever requests failed before, a request that can
\* be served is answered with the result it asks for.
C14_FaultsCaught ==
    AfterRequest =>
        /\ raised = None
        /\ FaultExpected =>
              /\ response.mimetype = "application/json"
              /\ response.body[1] = "error"
              /\ response.body[2] \in Faults
        /\ ~FaultExpected =>
              /\ ~ReportsFault(response)
              /\ ListAsRequested
              /\ CarriesResults

\* An analysis request is served with its list right after a request that
\* ended in a fault.
C14_Witness ==
    /\ pc = "analyze_route"
    /\ failed
    /\ results # <<>>
    /\ ~ReportsFault(response)

\* The aggregation of the command or request returned the empty list.
EmptyResult ==
    /\ pc \in {"command", "analyze_route", "export_csv_route", "export_chart_route"}
    /\ AggregationRan
    /\ raised = None
    /\ ~ReportsFault(response)
    /\ results = <<>>

\* The response is of the kind a fault is answered with: a JSON object whose
\* one member is 'error'.
ErrorObject ==
    /\ response.mimetype = "application/json"
    /\ response.body[1] = "error"

\* C15: an empty ranked list is reported as "no data", an outcome of another
\* kind than the outcome of a fault, that suggests relaxing the threshold:
\* on the command line and on analysis, CSV export and chart export requests.
C15_NoDataDistinct ==
    /\ (EmptyResult /\ pc = "command") => stdout.message = NoDataMessage
    /\ (EmptyResult /\ pc # "command") =>
          /\ ~ErrorObject
          /\ response.mimetype = "application/json"
          /\ response.body[2] = NoDataError

\* The latest call has the arguments of the remembered call, and the source
\* answered its queries as it answered those of the remembered call.
SameCall ==
    /\ pc = "call"
    /\ earlier.args.top_n = args.top_n
    /\ earlier.args.min_branches = args.min_branches
    /\ IF args.tick_range = None
       THEN earlier.args.tick_range = None
       ELSE IF earlier.args.tick_range = None
       THEN FALSE
       ELSE earlier.args.tick_range = args.tick_range
    /\ earlier.fetched = fetched

C17_CacheOnlyLatest ==
    pc = "analyze_route" =>
        /\ current_results = results
        /\ results = <<>> => current_stats = <<>>

\* The statistics of a response are those of the list of that response.
OwnStats(resp) ==
    LET list  == resp.body[2]
        stats == resp.body[4]
        total_branches == SumField(list, "total", 1)
        total_mispred  == SumField(list, "mispred", 1)
    IN  /\ stats[1][2] = Len(list)
        /\ stats[2][2] = total_branches
        /\ stats[3][2] = total_mispred
        /\ stats[4][2] = Round2Percent(total_mispred, total_branches)

\* C18: when analysis requests are handled at once, the statistics in a
\* response (count, total branches, total mispredictions, rate) are those of
\* the list in that response, in every interleaving.
C18_OwnStatistics ==
    \A t \in Threads :
        (thr[t].pc = "done" /\ thr[t].response.body[1] = "results") =>
            OwnStats(thr[t].response)

\* What an export or liveness request is answered with by an application
\* that has served no analysis: a function of the request, of the source and
\* of what the source returned.
FreshResponse ==
    IF pc = "export_csv_route"
    THEN HandleExportCsvRequest(db, fetched, request, <<>>).outcome.response
    ELSE IF pc = "export_chart_route"
    THEN HandleExportChart(db, fetched, request, <<>>).outcome.response
    ELSE [mimetype |-> "application/json", body |-> <<"status", "ok">>]

RECURSIVE SumOver(_, _)
SumOver(list, field) ==
    IF list = <<>>
    THEN 0
    ELSE SumOver(SubSeq(list, 1, Len(list) - 1), field) + list[Len(list)][field]

\* C20: the summary statistics are those of the records presented, the list
\* truncated to top_n: in the table the command prints and in the response
\* to an analysis request, the count is the number of records, the totals
\* are the sums of their branches and of their mispredictions, and the rate
\* is the second total over the first, as a percentage of two decimals; so
\* it is of a request served alone and of requests handled at once.
C20_SummaryOverPresented ==
    /\ (pc = "command" /\ raised = None /\ results # <<>>) =>
          /\ Len(stdout.rows) = Len(results)
          /\ Len(results) <= args.top_n
          /\ stdout.summary =
               <<Str(Len(results)),
                 Str(SumOver(results, "total")),
                 Str(SumOver(results, "mispred")),
                 Format2f(Quotient(SumOver(results, "mispred"),
                                   SumOver(results, "total"))) \o "%">>
    /\ (pc = "analyze_route" /\ response.body[1] = "results") =>
          /\ Len(response.body[2]) = Len(results)
          /\ Len(results) <= args.top_n
          /\ response.body[4][1][2] = Len(results)
          /\ response.body[4][2][2] = SumOver(results, "total")
          /\ response.body[4][3][2] = SumOver(results, "mispred")
          /\ response.body[4][4][2] =
               Round2Percent(SumOver(results, "mispred"),
                             SumOver(results, "total"))
    /\ \A t \in Threads :
          (thr[t].pc = "done" /\ thr[t].response.body[1] = "results") =>
              /\ Len(thr[t].response.body[2]) = Len(thr[t].results)
              /\ thr[t].response.body[4][1][2] = Len(thr[t].results)
              /\ thr[t].response.body[4][2][2] = SumOver(thr[t].results, "total")
              /\ thr[t].response.body[4][3][2] = SumOver(thr[t].results, "mispred")
              /\ thr[t].response.body[4][4][2] =
                   Round2Percent(SumOver(thr[t].results, "mispred"),
                                 SumOver(thr[t].results, "total"))

\* The lowest-numbered partition that yielded a row for address a.
FirstPartitionOf(a) ==
    CHOOSE t \in PartitionsOf(a) : \A u \in PartitionsOf(a) : t <= u

\* The place of the row of address a among the rows partition t yielded.
RowPlace(t, a) == CHOOSE k \in DOMAIN fetched[t] : fetched[t][k].pc = a

\* Address a was first merged before address b: in a lower-numbered
\* partition, or in the same partition by an earlier row.
FirstMergedBefore(a, b) ==
    \/ FirstPartitionOf(a) < FirstPartitionOf(b)
    \/ /\ FirstPartitionOf(a) = FirstPartitionOf(b)
       /\ RowPlace(FirstPartitionOf(a), a) < RowPlace(FirstPartitionOf(b), b)

\* C21: the descending sort is stable with respect to merge order: of two
\* returned records with equal mispredictCount, the one whose address was
\* first merged earlier (lower-numbered partition, then row order within
\* it) comes first.
C21_StableOnMergeOrder ==
    Returned =>
        \A i, j \in DOMAIN results :
            (i < j /\ results[i].mispred = results[j].mispred) =>
                FirstMergedBefore(results[i].pc, results[j].pc)

\* C21 witness: two records of equal count are returned with the higher
\* address first, the order they were merged in.
C21_Witness ==
    /\ Returned
    /\ Len(results) = 2
    /\ results[1].mispred = results[2].mispred
    /\ results[1].pc > results[2].pc
    /\ FirstMergedBefore(results[1].pc, results[2].pc)

====
